---- MODULE Spec2Model ----
(***************************************************************************)
(* Model of catboost/libs/model/model.h: the oblivious tree store          *)
(* (TObliviousTrees), its lazily built metadata cache (TMetaData), and the *)
(* full model (TFullModel) with its key/value map and its handle to a CTR  *)
(* provider.                                                               *)
(***************************************************************************)
EXTENDS Integers, Sequences, FiniteSets, TLC

VARIABLES
    ndebug,     \* TRUE: NDEBUG build, Y_ASSERT compiles to nothing
    obj,        \* the TFullModel objects: obj["src"] and obj["copy"]
    providers,  \* the heap of ICtrProvider objects, by address
    result,     \* the outcome of the last call
    mutated,    \* per object: was its tree structure changed (AddBinTree,
                \* Truncate, FBDeserialize) since its metadata was last
                \* built (history, not program state)
    built       \* per object: has UpdateMetadata completed on it (history)

vars == <<ndebug, obj, providers, result, mutated, built>>

----------------------------------------------------------------------------
(* Bounds of the model *)

\* trees of a model whose cache, copies and provider are followed
MaxTrees == 2
\* trees of a model that is only built, or built and evaluated
MaxBuildTrees == 3
\* depth of a tree
MaxDepth == 2
\* the highest feature index of a descriptor
MaxFeatureIndex == 2
\* calls of SetupBinFeatureIndexes one provider receives
MaxSetupCalls == 2

\* bin feature indexes a tree may refer to
BinIdx == {0, 1}

\* the objects of a run: the source model and the model CopyTreeRange returns
Objs == {"src", "copy"}

----------------------------------------------------------------------------
(* Helpers *)

Min(a, b) == IF a < b THEN a ELSE b

RECURSIVE Pow2(_)
Pow2(n) == IF n = 0 THEN 1 ELSE 2 * Pow2(n - 1)

RECURSIVE SumSeq(_)
SumSeq(s) == IF s = <<>> THEN 0 ELSE s[1] + SumSeq(Tail(s))

\* sequences over S of length at most n
SeqsUpTo(S, n) == UNION {[1..k -> S] : k \in 0..n}

\* TMaybe<T>
Nothing == <<>>
Just(x) == <<x>>
Defined(m) == Len(m) = 1
GetRef(m) == m[1]

\* outcome of a call: a returned value, a thrown exception (Y_ENSURE), or the
\* abort of the process (a failed Y_ASSERT in a debug build)
Ok(v) == [status |-> "ok", value |-> v]
Throws(what) == [status |-> "throws", value |-> what]
Aborts(what) == [status |-> "abort", value |-> what]

\* the record of a call: which method, on which object, with which arguments
Call(op, who, args, outcome) ==
    [op |-> op, who |-> who, args |-> args,
     status |-> outcome.status, value |-> outcome.value]

NoCall == Call("none", "src", <<>>, Ok(0))

----------------------------------------------------------------------------
(* TObliviousTrees and TFullModel, default constructed *)

NullPtr == "nullptr"

DefaultObliviousTrees ==
    [ApproxDimension |-> 1,
     TreeSplits |-> <<>>,
     TreeSizes |-> <<>>,
     TreeStartOffsets |-> <<>>,
     LeafValues |-> <<>>,
     CatFeatures |-> <<>>,
     FloatFeatures |-> <<>>,
     OneHotFeatures |-> <<>>,
     CtrFeatures |-> <<>>,
     MetaData |-> Nothing]

DefaultFullModel ==
    [ObliviousTrees |-> DefaultObliviousTrees,
     ModelInfo |-> {},
     CtrProvider |-> NullPtr]

----------------------------------------------------------------------------
(* TObliviousTrees::AddBinTree *)

\* the expression of the Y_ASSERT at the entry of AddBinTree
AddBinTreeAssertion(t) ==
    /\ Len(t.TreeSplits) = Len(t.TreeSizes)
    /\ Len(t.TreeSizes) = Len(t.TreeStartOffsets)

\* the body of AddBinTree after the assertion
AddBinTreeBody_ClearsCache(t, binSplits) ==
    [t EXCEPT
        !.TreeSplits = @ \o binSplits,
        !.TreeSizes = Append(@, Len(binSplits)),
        !.TreeStartOffsets =
            IF @ = <<>> THEN Append(@, 0)
            ELSE Append(@, @[Len(@)] + Len(binSplits)),
        !.MetaData = Nothing]

AddBinTreeBody(t, binSplits) ==
    [t EXCEPT
        !.TreeSplits = @ \o binSplits,
        !.TreeSizes = Append(@, Len(binSplits)),
        !.TreeStartOffsets =
            IF @ = <<>> THEN Append(@, 0)
            ELSE Append(@, @[Len(@)] + Len(binSplits))]

----------------------------------------------------------------------------
(* Feature descriptors *)

FloatFeature(featureIndex, borders) ==
    [FeatureIndex |-> featureIndex, Borders |-> borders]

CatFeature(featureIndex) == [FeatureIndex |-> featureIndex]

OneHotFeature(catFeatureIndex, values) ==
    [CatFeatureIndex |-> catFeatureIndex, Values |-> values]

CtrFeature(base, borders) == [Ctr |-> [Base |-> base], Borders |-> borders]

----------------------------------------------------------------------------
(* TMetaData and its builder, TObliviousTrees::UpdateMetadata *)

\* "we don't support models with more than 255 splits for a feature"
MaxSplitsPerBucket == 255

\* | ui16 featureIndex | ui8 xorMask | ui8 splitIdx | in one ui32:
\* featureIndex << 16 + xorMask << 8 + splitIdx, modulo 2^32. The word is
\* kept as its two 16 bit halves <<high, low>>.
PackBin_SwappedShifts(featureIndex, xorMask, splitIdx) ==
    LET low == featureIndex * 256 + splitIdx IN
    <<(xorMask + low \div 65536) % 65536, low % 65536>>

PackBin(featureIndex, xorMask, splitIdx) ==
    LET low == xorMask * 256 + splitIdx IN
    <<(featureIndex + low \div 65536) % 65536, low % 65536>>

FeatureIndexOf(word) == word[1]
XorMaskOf(word) == word[2] \div 256
SplitIdxOf(word) == word[2] % 256

\* the buckets of a store, in the order of the split types:
\* float features, then one-hot features, then CTR features
TagBuckets(type, descriptors) ==
    [j \in 1..Len(descriptors) |-> [Type |-> type, Feature |-> descriptors[j]]]

Buckets(t) ==
    TagBuckets("FloatFeature", t.FloatFeatures)
        \o TagBuckets("OneHotFeature", t.OneHotFeatures)
        \o TagBuckets("OnlineCtr", t.CtrFeatures)

Thresholds(bucket) ==
    IF bucket.Type = "OneHotFeature" THEN bucket.Feature.Values
    ELSE bucket.Feature.Borders

\* the bin features of the buckets from the b-th on: one per threshold, with
\* the bucket's number (from 0) and the threshold's position (from 1)
RECURSIVE SplitIds(_, _)
SplitIds(buckets, b) ==
    IF b > Len(buckets) THEN <<>>
    ELSE [k \in 1..Len(Thresholds(buckets[b])) |->
            [Type |-> buckets[b].Type,
             Feature |-> buckets[b].Feature,
             Threshold |-> Thresholds(buckets[b])[k],
             FeatureIdx |-> b - 1,
             SplitIdx |-> k]]
         \o SplitIds(buckets, b + 1)

XorMask(type) == IF type = "OneHotFeature" THEN 255 ELSE 0

BuildMetaData(t) ==
    LET ids == SplitIds(Buckets(t), 1) IN
    [UsedModelCtrs |-> [j \in 1..Len(t.CtrFeatures) |-> t.CtrFeatures[j].Ctr],
     BinFeatures |->
        [i \in 1..Len(ids) |->
            [Type |-> ids[i].Type, Feature |-> ids[i].Feature,
             Threshold |-> ids[i].Threshold]],
     RepackedBins |->
        [i \in 1..Len(ids) |->
            PackBin(ids[i].FeatureIdx, XorMask(ids[i].Type), ids[i].SplitIdx)],
     EffectiveBinFeaturesBucketCount |-> Len(Buckets(t))]

BucketTooLarge(t) ==
    \E b \in 1..Len(Buckets(t)) :
        Len(Thresholds(Buckets(t)[b])) > MaxSplitsPerBucket

\* the store after UpdateMetadata, and the call's outcome
UpdateMetadataStore(t) ==
    IF BucketTooLarge(t) THEN [t EXCEPT !.MetaData = Nothing]
    ELSE [t EXCEPT !.MetaData = Just(BuildMetaData(t))]

UpdateMetadataOutcome(t) ==
    IF BucketTooLarge(t) THEN Throws("too many splits for a feature")
    ELSE Ok(0)

----------------------------------------------------------------------------
(* The accessors of the metadata *)

NotInitialized == Throws("metadata should be initialized")

GetUsedModelCtrs_Unchecked(t) ==
    IF Defined(t.MetaData) THEN Ok(GetRef(t.MetaData).UsedModelCtrs)
    ELSE Ok(<<>>)

GetUsedModelCtrs(t) ==
    IF Defined(t.MetaData) THEN Ok(GetRef(t.MetaData).UsedModelCtrs)
    ELSE NotInitialized

GetBinFeatures(t) ==
    IF Defined(t.MetaData) THEN Ok(GetRef(t.MetaData).BinFeatures)
    ELSE NotInitialized

GetRepackedBins(t) ==
    IF Defined(t.MetaData) THEN Ok(GetRef(t.MetaData).RepackedBins)
    ELSE NotInitialized

GetEffectiveBinaryFeaturesBucketsCount(t) ==
    IF Defined(t.MetaData)
    THEN Ok(GetRef(t.MetaData).EffectiveBinFeaturesBucketCount)
    ELSE NotInitialized

\* the bases of the used CTRs; a set, as the vector is filled from a hash set
GetUsedModelCtrBases(t) ==
    LET used == GetUsedModelCtrs(t) IN
    IF used.status = "ok"
    THEN Ok({used.value[j].Base : j \in 1..Len(used.value)})
    ELSE used

GetBinaryFeaturesFullCount(t) ==
    LET bins == GetBinFeatures(t) IN
    IF bins.status = "ok" THEN Ok(Len(bins.value)) ELSE bins

MetaAccessors ==
    {"GetUsedModelCtrs", "GetBinFeatures", "GetRepackedBins",
     "GetEffectiveBinaryFeaturesBucketsCount", "GetUsedModelCtrBases",
     "GetBinaryFeaturesFullCount"}

Accessor(op, t) ==
    CASE op = "GetUsedModelCtrs" -> GetUsedModelCtrs(t)
      [] op = "GetBinFeatures" -> GetBinFeatures(t)
      [] op = "GetRepackedBins" -> GetRepackedBins(t)
      [] op = "GetEffectiveBinaryFeaturesBucketsCount" ->
            GetEffectiveBinaryFeaturesBucketsCount(t)
      [] op = "GetUsedModelCtrBases" -> GetUsedModelCtrBases(t)
      [] op = "GetBinaryFeaturesFullCount" -> GetBinaryFeaturesFullCount(t)

----------------------------------------------------------------------------
(* TObliviousTrees::Truncate and TFullModel::CopyTreeRange *)

\* keep the trees [begin, end): the splits and leaf blocks are sliced and the
\* offsets renumbered from zero; the metadata cache is cleared
Truncate(t, begin, end) ==
    LET n == Len(t.TreeSizes)
        first == IF begin < n THEN t.TreeStartOffsets[begin + 1]
                 ELSE Len(t.TreeSplits)
        last == IF end < n THEN t.TreeStartOffsets[end + 1]
                ELSE Len(t.TreeSplits)
    IN  [t EXCEPT
            !.TreeSplits = SubSeq(@, first + 1, last),
            !.TreeSizes = SubSeq(@, begin + 1, end),
            !.TreeStartOffsets =
                [i \in 1..(end - begin) |-> t.TreeStartOffsets[begin + i] - first],
            !.LeafValues = SubSeq(@, begin + 1, end),
            !.MetaData = Nothing]

\* TFullModel result = *this; result.ObliviousTrees.Truncate(begin, end);
\* the copy of the TIntrusivePtr refers to the same provider object
CopyTreeRangeResult(m, begin, end) ==
    [m EXCEPT !.ObliviousTrees = Truncate(@, begin, end)]

GetTreeCount(m) == Len(m.ObliviousTrees.TreeSizes)

----------------------------------------------------------------------------
(* operator== and operator!= *)

\* the std::tie of TObliviousTrees::operator==
TiedFields_WithMetaData(t) ==
    <<t.ApproxDimension, t.TreeSplits, t.TreeSizes, t.TreeStartOffsets,
      t.LeafValues, t.CatFeatures, t.FloatFeatures, t.OneHotFeatures,
      t.CtrFeatures, t.MetaData>>

TiedFields(t) ==
    <<t.ApproxDimension, t.TreeSplits, t.TreeSizes, t.TreeStartOffsets,
      t.LeafValues, t.CatFeatures, t.FloatFeatures, t.OneHotFeatures,
      t.CtrFeatures>>

ObliviousTreesEq(a, b) == TiedFields(a) = TiedFields(b)
ObliviousTreesNe(a, b) == ~ObliviousTreesEq(a, b)

FullModelEq(a, b) ==
    /\ ObliviousTreesEq(a.ObliviousTrees, b.ObliviousTrees)
    /\ a.ModelInfo = b.ModelInfo
FullModelNe(a, b) == ~FullModelEq(a, b)

Comparisons ==
    {"TObliviousTrees::operator==", "TObliviousTrees::operator!=",
     "TFullModel::operator==", "TFullModel::operator!="}

Compare(op, a, b) ==
    CASE op = "TObliviousTrees::operator==" ->
            ObliviousTreesEq(a.ObliviousTrees, b.ObliviousTrees)
      [] op = "TObliviousTrees::operator!=" ->
            ObliviousTreesNe(a.ObliviousTrees, b.ObliviousTrees)
      [] op = "TFullModel::operator==" -> FullModelEq(a, b)
      [] op = "TFullModel::operator!=" -> FullModelNe(a, b)

----------------------------------------------------------------------------
(* Feature counts *)

GetNumFloatFeatures(t) ==
    IF t.FloatFeatures = <<>> THEN 0
    ELSE t.FloatFeatures[Len(t.FloatFeatures)].FeatureIndex + 1

GetNumCatFeatures(t) ==
    IF t.CatFeatures = <<>> THEN 0
    ELSE t.CatFeatures[Len(t.CatFeatures)].FeatureIndex + 1

GetFlatFeatureVectorExpectedSize(t) ==
    GetNumFloatFeatures(t) + GetNumCatFeatures(t)

HasCategoricalFeatures(m) == m.ObliviousTrees.CatFeatures # <<>>

FeatureCounts(m) ==
    [GetNumFloatFeatures |-> GetNumFloatFeatures(m.ObliviousTrees),
     GetNumCatFeatures |-> GetNumCatFeatures(m.ObliviousTrees),
     GetFlatFeatureVectorExpectedSize |->
        GetFlatFeatureVectorExpectedSize(m.ObliviousTrees),
     HasCategoricalFeatures |-> HasCategoricalFeatures(m)]

----------------------------------------------------------------------------
(* The CTR provider *)

\* ICtrProvider::HasNeededCtrs: can the provider supply every used CTR
HasNeededCtrs(provider, usedCtrs) ==
    \A j \in 1..Len(usedCtrs) : usedCtrs[j].Base \in provider.Bases

HasValidCtrProvider_NoNullCheck(m, heap) ==
    LET used == GetUsedModelCtrs(m.ObliviousTrees) IN
    IF used.status # "ok" THEN used
    ELSE Ok(m.CtrProvider # NullPtr => HasNeededCtrs(heap[m.CtrProvider], used.value))

HasValidCtrProvider(m, heap) ==
    IF m.CtrProvider = NullPtr THEN Ok(FALSE)
    ELSE LET used == GetUsedModelCtrs(m.ObliviousTrees) IN
         IF used.status # "ok" THEN used
         ELSE Ok(HasNeededCtrs(heap[m.CtrProvider], used.value))

----------------------------------------------------------------------------
(* TFullModel::UpdateDynamicData *)

\* ICtrProvider::SetupBinFeatureIndexes: the provider wires its indexes to
\* the descriptors it is given; SetupCalls counts the calls it has received
SetupBinFeatureIndexes(provider, floatFeatures, oneHotFeatures, catFeatures) ==
    [provider EXCEPT
        !.SetupCalls = @ + 1,
        !.Indexes = Just(<<floatFeatures, oneHotFeatures, catFeatures>>)]

\* ObliviousTrees.UpdateMetadata();
UpdateDynamicDataModel(m) ==
    [m EXCEPT !.ObliviousTrees = UpdateMetadataStore(@)]

UpdateDynamicDataHeap_NoSetup(m, heap) == heap

\* if (CtrProvider) CtrProvider->SetupBinFeatureIndexes(...), which is not
\* reached when UpdateMetadata has thrown
UpdateDynamicDataHeap(m, heap) ==
    IF UpdateMetadataOutcome(m.ObliviousTrees).status # "ok" THEN heap
    ELSE IF m.CtrProvider = NullPtr THEN heap
    ELSE [heap EXCEPT ![m.CtrProvider] =
            SetupBinFeatureIndexes(@, m.ObliviousTrees.FloatFeatures,
                                   m.ObliviousTrees.OneHotFeatures,
                                   m.ObliviousTrees.CatFeatures)]

----------------------------------------------------------------------------
(* Evaluation: TFullModel::Calc and TFullModel::CalcTreeIntervals *)

\* the comparison byte of a row for a float bucket: the number of borders
\* of the feature that the row's value exceeds
BucketByte(bucket, row) ==
    Cardinality({k \in 1..Len(bucket.Feature.Borders) :
                    row[bucket.Feature.FeatureIndex + 1] > bucket.Feature.Borders[k]})

\* the outcome of the split with bin feature index binSplit on a row
SplitBit(t, row, binSplit) ==
    LET word == GetRef(t.MetaData).RepackedBins[binSplit + 1]
        byte == BucketByte(Buckets(t)[FeatureIndexOf(word) + 1], row)
    IN  IF byte >= SplitIdxOf(word) THEN 1 ELSE 0

\* the leaf a row reaches in a tree: one bit per split, the last split in
\* the low bit
RECURSIVE LeafIndex(_, _, _, _)
LeafIndex(t, row, treeId, depth) ==
    IF depth = 0 THEN 0
    ELSE 2 * LeafIndex(t, row, treeId, depth - 1)
            + SplitBit(t, row, t.TreeSplits[t.TreeStartOffsets[treeId] + depth])

TreeValue(t, row, treeId, dim) ==
    t.LeafValues[treeId][LeafIndex(t, row, treeId, t.TreeSizes[treeId])
                            * t.ApproxDimension + dim]

\* sum of the leaf values of the trees treeStart+1 .. treeEnd (counted from 1)
RECURSIVE SumTrees(_, _, _, _, _)
SumTrees(t, row, dim, treeStart, treeEnd) ==
    IF treeEnd <= treeStart THEN 0
    ELSE SumTrees(t, row, dim, treeStart, treeEnd - 1)
            + TreeValue(t, row, treeEnd, dim)

\* results[objectIndex * ApproxDimension + classId] over the trees
\* [treeStart, treeEnd)
CalcResults(t, rows, treeStart, treeEnd) ==
    [i \in 1..(Len(rows) * t.ApproxDimension) |->
        SumTrees(t, rows[((i - 1) \div t.ApproxDimension) + 1],
                 ((i - 1) % t.ApproxDimension) + 1, treeStart, treeEnd)]

\* every tree reads its splits inside TreeSplits and every split refers to a
\* bin feature of the metadata (anything else is a read out of range)
ReadsInRange(t) ==
    /\ Len(t.LeafValues) = Len(t.TreeSizes)
    /\ Len(t.TreeStartOffsets) = Len(t.TreeSizes)
    /\ \A treeId \in 1..Len(t.TreeSizes) :
          t.TreeStartOffsets[treeId] + t.TreeSizes[treeId] <= Len(t.TreeSplits)
    /\ Defined(t.MetaData) =>
          \A i \in 1..Len(t.TreeSplits) :
              t.TreeSplits[i] < Len(GetRef(t.MetaData).RepackedBins)

Calc(m, rows, treeStart, treeEnd) ==
    LET bins == GetRepackedBins(m.ObliviousTrees) IN
    IF bins.status # "ok" THEN bins
    ELSE Ok(CalcResults(m.ObliviousTrees, rows, treeStart, treeEnd))

VecAdd(a, b) == [i \in 1..Len(a) |-> a[i] + b[i]]

\* the stages 1..k: each adds the trees of its window to the stage before
RECURSIVE StagesWindows(_, _, _, _)
StagesWindows(t, rows, incrementStep, k) ==
    IF k = 0 THEN <<>>
    ELSE Append(StagesWindows(t, rows, incrementStep, k - 1),
                CalcResults(t, rows, (k - 1) * incrementStep,
                            Min(k * incrementStep, Len(t.TreeSizes))))

RECURSIVE Stages(_, _, _, _)
Stages(t, rows, incrementStep, k) ==
    IF k = 0 THEN <<>>
    ELSE LET before == Stages(t, rows, incrementStep, k - 1)
             window == CalcResults(t, rows, (k - 1) * incrementStep,
                                   Min(k * incrementStep, Len(t.TreeSizes)))
         IN  Append(before,
                    IF k = 1 THEN window ELSE VecAdd(before[k - 1], window))

StageCount(t, incrementStep) ==
    (Len(t.TreeSizes) + incrementStep - 1) \div incrementStep

CalcTreeIntervals_IndependentWindows(m, rows, incrementStep) ==
    LET bins == GetRepackedBins(m.ObliviousTrees) IN
    IF bins.status # "ok" THEN bins
    ELSE Ok(StagesWindows(m.ObliviousTrees, rows, incrementStep,
                          StageCount(m.ObliviousTrees, incrementStep)))

CalcTreeIntervals(m, rows, incrementStep) ==
    LET bins == GetRepackedBins(m.ObliviousTrees) IN
    IF bins.status # "ok" THEN bins
    ELSE Ok(Stages(m.ObliviousTrees, rows, incrementStep,
                   StageCount(m.ObliviousTrees, incrementStep)))

----------------------------------------------------------------------------
(* TObliviousTrees::FBDeserialize *)

\* TVector::resize: cut, or fill up with default constructed elements
Resize(s, n, default) ==
    [i \in 1..n |-> IF i <= Len(s) THEN s[i] ELSE default]

\* the number of leaf values of tree treeId, and of the trees before it
TreeLeafCount(approxDimension, sizes, treeId) ==
    approxDimension * Pow2(sizes[treeId])

RECURSIVE LeafStart(_, _, _)
LeafStart(approxDimension, sizes, treeId) ==
    IF treeId = 1 THEN 0
    ELSE LeafStart(approxDimension, sizes, treeId - 1)
            + TreeLeafCount(approxDimension, sizes, treeId - 1)

\* a vector of the flatbuffer object is absent (Nothing) or present
FBVector(t, fbObj, var) ==
    IF Defined(fbObj[var]) THEN GetRef(fbObj[var]) ELSE t[var]

FBDeserialize(t, fbObj) ==
    LET sizes == FBVector(t, fbObj, "TreeSizes")
        dim == fbObj.ApproxDimension
        resized == Resize(t.LeafValues, Len(sizes), <<>>)
    IN  [t EXCEPT
            !.ApproxDimension = dim,
            !.TreeSplits = FBVector(t, fbObj, "TreeSplits"),
            !.TreeSizes = sizes,
            !.TreeStartOffsets = FBVector(t, fbObj, "TreeStartOffsets"),
            !.LeafValues =
                IF Defined(fbObj.LeafValues)
                THEN [treeId \in 1..Len(sizes) |->
                        SubSeq(GetRef(fbObj.LeafValues),
                               LeafStart(dim, sizes, treeId) + 1,
                               LeafStart(dim, sizes, treeId)
                                   + TreeLeafCount(dim, sizes, treeId))]
                ELSE resized,
            !.CatFeatures = FBVector(t, fbObj, "CatFeatures"),
            !.FloatFeatures = FBVector(t, fbObj, "FloatFeatures"),
            !.OneHotFeatures = FBVector(t, fbObj, "OneHotFeatures"),
            !.CtrFeatures = FBVector(t, fbObj, "CtrFeatures")]

\* the leaf values of the object suffice for the trees that are read
\* (reading past the end of the flatbuffer vector is undefined)
FBLeafValuesInRange(t, fbObj) ==
    LET sizes == FBVector(t, fbObj, "TreeSizes") IN
    Defined(fbObj.LeafValues) =>
        SumSeq([treeId \in 1..Len(sizes) |->
                    TreeLeafCount(fbObj.ApproxDimension, sizes, treeId)])
            <= Len(GetRef(fbObj.LeafValues))

\* the split lists a caller appends
SplitLists == SeqsUpTo(BinIdx, MaxDepth)

----------------------------------------------------------------------------
(* Initial state: two default constructed models, no call made yet *)

\* the provider objects of a run and the CTR bases each can supply
ProviderIds == {"p1", "p2"}

CtrBases == {"b1", "b2"}

InitProviders ==
    [p \in ProviderIds |->
        [Bases |-> IF p = "p1" THEN {"b1"} ELSE {"b1", "b2"},
         SetupCalls |-> 0,
         Indexes |-> Nothing]]

Init ==
    /\ ndebug \in BOOLEAN
    /\ obj = [w \in Objs |-> DefaultFullModel]
    /\ providers = InitProviders
    /\ result = NoCall
    /\ mutated = [w \in Objs |-> FALSE]
    /\ built = [w \in Objs |-> FALSE]

\* a failed Y_ASSERT ends the process: no call follows it
Running == result.status # "abort"

Trees(who) == obj[who].ObliviousTrees

\* the bound on the number of trees a run appends
TreeCountBelow(who, n) == Len(Trees(who).TreeSizes) < n

\* the caller has pushed the leaf block of every tree appended so far
LeafBlockPerTree(who) == Len(Trees(who).LeafValues) = Len(Trees(who).TreeSizes)

----------------------------------------------------------------------------
(* Actions *)

AddBinTree(who, binSplits) ==
    /\ Running
    /\ IF ~ndebug /\ ~AddBinTreeAssertion(Trees(who))
       THEN /\ result' = Call("AddBinTree", who, binSplits, Aborts("Y_ASSERT"))
            /\ UNCHANGED <<obj, mutated>>
       ELSE /\ obj' = [obj EXCEPT
                          ![who].ObliviousTrees = AddBinTreeBody(@, binSplits)]
            /\ result' = Call("AddBinTree", who, binSplits, Ok(0))
            /\ mutated' = [mutated EXCEPT ![who] = TRUE]
    /\ UNCHANGED <<ndebug, providers, built>>

\* the caller's LeafValues.push_back(block) for the next tree without one
PushLeafValues(who, block) ==
    /\ Running
    /\ Len(Trees(who).LeafValues) < Len(Trees(who).TreeSizes)
    /\ Len(block) = TreeLeafCount(Trees(who).ApproxDimension,
                                  Trees(who).TreeSizes,
                                  Len(Trees(who).LeafValues) + 1)
    /\ obj' = [obj EXCEPT ![who].ObliviousTrees.LeafValues = Append(@, block)]
    /\ result' = Call("PushLeafValues", who, block, Ok(0))
    /\ UNCHANGED <<ndebug, providers, mutated, built>>

\* FBDeserialize into a freshly constructed model, as when a model is loaded
LoadFB(who, fbObj) ==
    /\ Running
    /\ obj[who] = DefaultFullModel
    /\ FBLeafValuesInRange(Trees(who), fbObj)
    /\ obj' = [obj EXCEPT ![who].ObliviousTrees = FBDeserialize(@, fbObj)]
    /\ result' = Call("FBDeserialize", who, <<>>, Ok(0))
    /\ mutated' = [mutated EXCEPT ![who] = TRUE]
    /\ UNCHANGED <<ndebug, providers, built>>

UpdateMetadata(who) ==
    /\ Running
    /\ obj' = [obj EXCEPT ![who].ObliviousTrees = UpdateMetadataStore(@)]
    /\ result' = Call("UpdateMetadata", who, <<>>,
                      UpdateMetadataOutcome(Trees(who)))
    /\ mutated' = [mutated EXCEPT ![who] = FALSE]
    /\ built' = [built EXCEPT ![who] = UpdateMetadataOutcome(Trees(who)).status = "ok"]
    /\ UNCHANGED <<ndebug, providers>>

\* a call of one of the metadata accessors
CallAccessor(who, op) ==
    /\ Running
    /\ result' = Call(op, who, <<>>, Accessor(op, Trees(who)))
    /\ UNCHANGED <<ndebug, obj, providers, mutated, built>>

\* model.CtrProvider = p: attach a provider, or detach it
SetCtrProvider(who, p) ==
    /\ Running
    /\ obj[who].CtrProvider # p
    /\ obj' = [obj EXCEPT ![who].CtrProvider = p]
    /\ result' = Call("SetCtrProvider", who, <<p>>, Ok(0))
    /\ UNCHANGED <<ndebug, providers, mutated, built>>

\* model.ModelInfo = info
SetModelInfo(who, info) ==
    /\ Running
    /\ obj[who].ModelInfo # info
    /\ obj' = [obj EXCEPT ![who].ModelInfo = info]
    /\ result' = Call("SetModelInfo", who, <<info>>, Ok(0))
    /\ UNCHANGED <<ndebug, providers, mutated, built>>

CallHasValidCtrProvider(who) ==
    /\ Running
    /\ result' = Call("HasValidCtrProvider", who, <<>>,
                      HasValidCtrProvider(obj[who], providers))
    /\ UNCHANGED <<ndebug, obj, providers, mutated, built>>

\* copy = src.CopyTreeRange(begin, end), on a model with a leaf block per tree
CopyTreeRange(begin, end) ==
    /\ Running
    /\ begin <= end
    /\ end <= GetTreeCount(obj["src"])
    /\ LeafBlockPerTree("src")
    /\ obj' = [obj EXCEPT !["copy"] = CopyTreeRangeResult(obj["src"], begin, end)]
    /\ result' = Call("CopyTreeRange", "src", <<begin, end>>, Ok(0))
    /\ mutated' = [mutated EXCEPT !["copy"] = TRUE]
    /\ built' = [built EXCEPT !["copy"] = FALSE]
    /\ UNCHANGED <<ndebug, providers>>

\* src == copy and src != copy, on the two models and on their tree stores
CallCompare ==
    /\ Running
    /\ result' = Call("Compare", "src", <<"copy">>,
                      Ok([op \in Comparisons |->
                            Compare(op, obj["src"], obj["copy"])]))
    /\ UNCHANGED <<ndebug, obj, providers, mutated, built>>

CallFeatureCounts(who) ==
    /\ Running
    /\ result' = Call("FeatureCounts", who, <<>>, Ok(FeatureCounts(obj[who])))
    /\ UNCHANGED <<ndebug, obj, providers, mutated, built>>

UpdateDynamicData(who) ==
    /\ Running
    /\ obj[who].CtrProvider # NullPtr =>
          providers[obj[who].CtrProvider].SetupCalls < MaxSetupCalls
    /\ obj' = [obj EXCEPT ![who] = UpdateDynamicDataModel(@)]
    /\ providers' = UpdateDynamicDataHeap(obj[who], providers)
    /\ result' = Call("UpdateDynamicData", who, <<>>,
                      UpdateMetadataOutcome(Trees(who)))
    /\ mutated' = [mutated EXCEPT ![who] = FALSE]
    /\ built' = [built EXCEPT ![who] = UpdateMetadataOutcome(Trees(who)).status = "ok"]
    /\ UNCHANGED ndebug

\* FBDeserialize into a model that already holds data: the vectors present
\* in the flatbuffer object replace the model's
Redeserialize(who, fbObj) ==
    /\ Running
    /\ obj[who] # DefaultFullModel
    /\ FBLeafValuesInRange(Trees(who), fbObj)
    /\ Trees(who) # FBDeserialize(Trees(who), fbObj)
    /\ obj' = [obj EXCEPT ![who].ObliviousTrees = FBDeserialize(@, fbObj)]
    /\ result' = Call("FBDeserialize", who, <<>>, Ok(0))
    /\ mutated' = [mutated EXCEPT ![who] = TRUE]
    /\ UNCHANGED <<ndebug, providers, built>>

CallCalc(who, rows, treeStart, treeEnd) ==
    /\ Running
    /\ treeStart <= treeEnd
    /\ treeEnd <= GetTreeCount(obj[who])
    /\ ReadsInRange(Trees(who))
    /\ result' = Call("Calc", who, <<rows, treeStart, treeEnd>>,
                      Calc(obj[who], rows, treeStart, treeEnd))
    /\ UNCHANGED <<ndebug, obj, providers, mutated, built>>

CallCalcTreeIntervals(who, rows, incrementStep) ==
    /\ Running
    /\ incrementStep >= 1
    /\ ReadsInRange(Trees(who))
    /\ result' = Call("CalcTreeIntervals", who, <<rows, incrementStep>>,
                      CalcTreeIntervals(obj[who], rows, incrementStep))
    /\ UNCHANGED <<ndebug, obj, providers, mutated, built>>

----------------------------------------------------------------------------
(* Inputs *)

\* one split list of each depth 0, 1 and 2
DepthLists == {<<>>, <<0>>, <<0, 1>>}

\* the leaf block a caller pushes for a tree with count leaf values
LeafBlock(count) == [i \in 1..count |-> i]

LeafBlocksFor(who) ==
    IF Len(Trees(who).LeafValues) < Len(Trees(who).TreeSizes)
    THEN {LeafBlock(TreeLeafCount(Trees(who).ApproxDimension,
                                  Trees(who).TreeSizes,
                                  Len(Trees(who).LeafValues) + 1))}
    ELSE {}

ModelInfos == {{}, {<<"params", "{}">>}}

----------------------------------------------------------------------------
(* Building a tree store by AddBinTree calls alone *)

NextBuild ==
    \E binSplits \in SplitLists :
        TreeCountBelow("src", MaxBuildTrees) /\ AddBinTree("src", binSplits)

SpecBuild == Init /\ [][NextBuild]_vars

----------------------------------------------------------------------------
(* The tree store invariant of the data model *)

TreeStoreInvariant(t) ==
    /\ Len(t.TreeSizes) = Len(t.TreeStartOffsets)
    /\ (t.TreeStartOffsets # <<>> => t.TreeStartOffsets[1] = 0)
    /\ \A i \in 2..Len(t.TreeStartOffsets) :
          t.TreeStartOffsets[i] = t.TreeStartOffsets[i - 1] + t.TreeSizes[i - 1]
    /\ Len(t.TreeSplits) = SumSeq(t.TreeSizes)

\* C1: after any sequence of AddBinTree calls from the empty store, the
\* sizes and offsets have one entry per tree, the first offset is 0, every
\* later offset is the previous offset plus the previous size, and the split
\* array holds sum(sizes) entries.
C1_OffsetInvariant == TreeStoreInvariant(Trees("src"))

\* C2: an AddBinTree call on a store built by AddBinTree calls fails its
\* entry assertion only when the sizes and offsets differ in length, so it
\* never fails on such a store.
C2_AssertionPasses ==
    (result.op = "AddBinTree" /\ result.status = "abort")
        => Len(Trees(result.who).TreeSizes) # Len(Trees(result.who).TreeStartOffsets)

----------------------------------------------------------------------------
(* The life of the metadata cache: build, append, truncate, read *)

Next ==
    \/ \E binSplits \in DepthLists :
          TreeCountBelow("src", MaxTrees) /\ AddBinTree("src", binSplits)
    \/ \E block \in LeafBlocksFor("src") : PushLeafValues("src", block)
    \/ \E who \in Objs : UpdateMetadata(who)
    \/ \E begin, end \in 0..MaxTrees : CopyTreeRange(begin, end)
    \/ \E who \in Objs, op \in MetaAccessors : CallAccessor(who, op)

Spec == Init /\ [][Next]_vars

\* what an accessor returns from a built cache
CachedValue(op, metaData) ==
    CASE op = "GetUsedModelCtrs" -> metaData.UsedModelCtrs
      [] op = "GetBinFeatures" -> metaData.BinFeatures
      [] op = "GetRepackedBins" -> metaData.RepackedBins
      [] op = "GetEffectiveBinaryFeaturesBucketsCount" ->
            metaData.EffectiveBinFeaturesBucketCount
      [] op = "GetUsedModelCtrBases" ->
            {metaData.UsedModelCtrs[j].Base : j \in 1..Len(metaData.UsedModelCtrs)}
      [] op = "GetBinaryFeaturesFullCount" -> Len(metaData.BinFeatures)

\* C3: on a store whose metadata has never been built every metadata
\* accessor raises "metadata should be initialized" and returns nothing;
\* on a store on which UpdateMetadata has completed it returns the cached
\* value without error.
C3_AccessorsNeedMetadata ==
    result.op \in MetaAccessors =>
        /\ ~built[result.who] =>
              /\ result.status = "throws"
              /\ result.value = "metadata should be initialized"
        /\ built[result.who] =>
              /\ result.status = "ok"
              /\ Defined(Trees(result.who).MetaData)
              /\ result.value =
                    CachedValue(result.op, GetRef(Trees(result.who).MetaData))

C3_Witness_Throws ==
    /\ result.op = "GetUsedModelCtrBases"
    /\ ~built["src"] /\ result.who = "src"
    /\ GetTreeCount(obj["src"]) > 0
    /\ result.status = "throws"

\* C4 as claimed: an accessor called on a store that was appended to or
\* truncated since its metadata was last built raises the not-initialized
\* error.
C4_MutationClearsCache ==
    (result.op \in MetaAccessors /\ mutated[result.who])
        => result.status = "throws"

\* C4 as amended: truncation (CopyTreeRange) leaves the truncated model
\* with no metadata cache, so its accessors raise until UpdateMetadata is
\* called on it; AddBinTree leaves the cache exactly as it was, so after an
\* append the accessors raise only if the cache was never built and otherwise
\* return the cache built before the append.
C4_OnlyTruncateClearsCache ==
    [][/\ (result'.op = "AddBinTree" /\ result'.status = "ok") =>
            /\ obj'[result'.who].ObliviousTrees.MetaData
                  = obj[result'.who].ObliviousTrees.MetaData
            /\ \A op \in MetaAccessors :
                  Accessor(op, obj'[result'.who].ObliviousTrees)
                     = Accessor(op, obj[result'.who].ObliviousTrees)
       /\ result'.op = "CopyTreeRange" =>
            /\ ~Defined(obj'["copy"].ObliviousTrees.MetaData)
            /\ \A op \in MetaAccessors :
                  Accessor(op, obj'["copy"].ObliviousTrees) = NotInitialized
      ]_vars

C4_Witness_StaleCache ==
    /\ result.op \in MetaAccessors
    /\ result.who = "src"
    /\ mutated["src"]
    /\ result.status = "ok"

----------------------------------------------------------------------------
(* Copies and comparisons *)

\* a flatbuffer object with no vector present
FbNoVectors ==
    [ApproxDimension |-> 1,
     TreeSplits |-> Nothing, TreeSizes |-> Nothing,
     TreeStartOffsets |-> Nothing, LeafValues |-> Nothing,
     CatFeatures |-> Nothing, FloatFeatures |-> Nothing,
     OneHotFeatures |-> Nothing, CtrFeatures |-> Nothing]

\* flatbuffer objects that differ from it in one field each
FbOneField ==
    {FbNoVectors,
     [FbNoVectors EXCEPT !.ApproxDimension = 2],
     [FbNoVectors EXCEPT !.CatFeatures = Just(<<CatFeature(0)>>)],
     [FbNoVectors EXCEPT !.FloatFeatures = Just(<<FloatFeature(0, <<1>>)>>)],
     [FbNoVectors EXCEPT !.OneHotFeatures = Just(<<OneHotFeature(0, <<7>>)>>)],
     [FbNoVectors EXCEPT !.CtrFeatures = Just(<<CtrFeature("b1", <<1>>)>>)]}

NextCopy ==
    \/ \E fbObj \in FbOneField : LoadFB("src", fbObj)
    \/ \E binSplits \in DepthLists :
          /\ TreeCountBelow("src", MaxTrees)
          /\ LeafBlockPerTree("src")
          /\ AddBinTree("src", binSplits)
    \/ \E block \in LeafBlocksFor("src") : PushLeafValues("src", block)
    \/ UpdateMetadata("src")
    \/ \E begin, end \in 0..MaxTrees : CopyTreeRange(begin, end)
    \/ \E p \in {NullPtr, "p1"} : SetCtrProvider("copy", p)
    \/ \E info \in ModelInfos : SetModelInfo("copy", info)
    \/ CallCompare

SpecCopy == Init /\ [][NextCopy]_vars

StructuralFields ==
    {"ApproxDimension", "TreeSplits", "TreeSizes", "TreeStartOffsets",
     "LeafValues", "CatFeatures", "FloatFeatures", "OneHotFeatures",
     "CtrFeatures"}

SameStructure(a, b) ==
    \A f \in StructuralFields : a.ObliviousTrees[f] = b.ObliviousTrees[f]

\* C5: two tree stores compare equal exactly when their nine structural
\* fields are pairwise equal, whatever their metadata caches hold; two full
\* models compare equal exactly when their tree stores and their ModelInfo
\* maps are equal, whatever provider each refers to; != is the negation
\* of ==.
C5_EqualityIsStructural ==
    result.op = "Compare" =>
        LET same == SameStructure(obj["src"], obj["copy"])
            sameInfo == obj["src"].ModelInfo = obj["copy"].ModelInfo
        IN  /\ result.value["TObliviousTrees::operator=="] = same
            /\ result.value["TObliviousTrees::operator!="] = ~same
            /\ result.value["TFullModel::operator=="] = (same /\ sameInfo)
            /\ result.value["TFullModel::operator!="] = ~(same /\ sameInfo)

C5_Witness_EqualDespiteCacheAndProvider ==
    /\ result.op = "Compare"
    /\ result.value["TFullModel::operator=="] = TRUE
    /\ GetTreeCount(obj["src"]) > 0
    /\ Defined(Trees("src").MetaData)
    /\ ~Defined(Trees("copy").MetaData)
    /\ obj["src"].CtrProvider # obj["copy"].CtrProvider

\* the i-th tree of a store as it was appended: its splits follow those of
\* the trees before it
TreeAt(t, i) ==
    SubSeq(t.TreeSplits,
           SumSeq(SubSeq(t.TreeSizes, 1, i - 1)) + 1,
           SumSeq(SubSeq(t.TreeSizes, 1, i)))

\* C8: CopyTreeRange(b, e) returns a model with e - b trees that satisfies
\* the tree store invariant, whose trees and leaf blocks are the source's
\* trees b..e-1 in order, and leaves the source model as it was.
C8_CopyTreeRange ==
    [][result'.op = "CopyTreeRange" =>
        LET b == result'.args[1]
            e == result'.args[2]
            source == obj["src"].ObliviousTrees
            copied == obj'["copy"].ObliviousTrees
        IN  /\ obj'["src"] = obj["src"]
            /\ GetTreeCount(obj'["src"]) = GetTreeCount(obj["src"])
            /\ GetTreeCount(obj'["copy"]) = e - b
            /\ Len(copied.LeafValues) = e - b
            /\ obj'["copy"].ModelInfo = obj["src"].ModelInfo
            /\ TreeStoreInvariant(copied)
            /\ \A i \in 1..(e - b) :
                  /\ TreeAt(copied, i) = TreeAt(source, b + i)
                  /\ copied.LeafValues[i] = source.LeafValues[b + i]
      ]_vars

----------------------------------------------------------------------------
(* Models with CTR features and their provider *)

\* flatbuffer objects of models that use no, one or two CTR bases
FbCtrModels ==
    {[FbNoVectors EXCEPT
        !.CatFeatures = Just(<<CatFeature(0)>>),
        !.FloatFeatures = Just(<<FloatFeature(0, <<1>>)>>),
        !.CtrFeatures = Just([j \in 1..Len(bases) |-> CtrFeature(bases[j], <<1>>)])]
     : bases \in {<<>>, <<"b1">>, <<"b2">>, <<"b1", "b2">>, <<"b2", "b1">>}}

NextProvider ==
    \/ \E fbObj \in FbCtrModels : LoadFB("src", fbObj)
    \/ UpdateMetadata("src")
    \/ \E p \in ProviderIds \cup {NullPtr} : SetCtrProvider("src", p)
    \/ CallHasValidCtrProvider("src")
    \/ \E op \in MetaAccessors : CallAccessor("src", op)

SpecProvider == Init /\ [][NextProvider]_vars

\* the provider the model refers to supplies every base of the given CTRs
Supplies(m, usedCtrs) ==
    \A j \in 1..Len(usedCtrs) :
        usedCtrs[j].Base \in providers[m.CtrProvider].Bases

----------------------------------------------------------------------------
(* Loaded models: feature counts and the packing of the bin features *)

\* descriptor lists in any order of their feature indexes
\* (none, one or two descriptors)
FloatFeatureLists ==
    SeqsUpTo({FloatFeature(i, <<1>>) : i \in 0..MaxFeatureIndex}, 2)

CatFeatureLists ==
    SeqsUpTo({CatFeature(i) : i \in 0..MaxFeatureIndex}, 2)

FbFeatureLists ==
    {[FbNoVectors EXCEPT !.FloatFeatures = Just(floats),
                         !.CatFeatures = Just(cats)]
     : floats \in FloatFeatureLists, cats \in CatFeatureLists}

\* numbers of thresholds of one feature, up to and past the ceiling
ThresholdCounts ==
    {0, 1, 2, MaxSplitsPerBucket - 1, MaxSplitsPerBucket, MaxSplitsPerBucket + 1}

ThresholdList(n) == [k \in 1..n |-> k]

FbThresholds ==
    {[FbNoVectors EXCEPT
        !.CatFeatures = Just(<<CatFeature(0)>>),
        !.FloatFeatures =
            Just(<<FloatFeature(0, ThresholdList(2)), FloatFeature(1, ThresholdList(nf))>>),
        !.OneHotFeatures = Just(<<OneHotFeature(0, ThresholdList(no))>>),
        !.CtrFeatures = Just(<<CtrFeature("b1", ThresholdList(nc))>>)]
     : nf \in ThresholdCounts, no \in {1, MaxSplitsPerBucket + 1},
       nc \in {0, MaxSplitsPerBucket, MaxSplitsPerBucket + 1}}

\* a model of two trees (depths 1 and 0) with its leaf values
FbTrees ==
    {[FbNoVectors EXCEPT
        !.ApproxDimension = dim,
        !.TreeSplits = Just(<<0>>),
        !.TreeSizes = Just(<<1, 0>>),
        !.TreeStartOffsets = Just(<<0, 1>>),
        !.LeafValues = Just([i \in 1..(3 * dim) |-> 10 * i]),
        !.FloatFeatures = Just(<<FloatFeature(0, <<1>>)>>)]
     : dim \in {1, 2}}

NextLoad ==
    \/ \E fbObj \in FbFeatureLists \cup FbThresholds \cup FbTrees :
          LoadFB("src", fbObj)
    \/ UpdateMetadata("src")
    \/ CallFeatureCounts("src")
    \/ \E op \in MetaAccessors : CallAccessor("src", op)

SpecLoad == Init /\ [][NextLoad]_vars

\* the highest feature index of a descriptor list plus one, 0 if it is empty
RECURSIVE HighestIndexPlusOne(_)
HighestIndexPlusOne(descriptors) ==
    IF descriptors = <<>> THEN 0
    ELSE LET rest == HighestIndexPlusOne(Tail(descriptors))
             this == Head(descriptors).FeatureIndex + 1
         IN  IF this > rest THEN this ELSE rest

\* C6: GetNumFloatFeatures and GetNumCatFeatures are the highest feature
\* index occurring anywhere in the FloatFeatures (CatFeatures) list plus one,
\* 0 for an empty list; HasCategoricalFeatures holds exactly when
\* GetNumCatFeatures is positive; GetFlatFeatureVectorExpectedSize is the sum
\* of the two counts.
C6_CountsAreHighestIndexPlusOne ==
    result.op = "FeatureCounts" =>
        LET t == Trees(result.who) IN
        /\ result.value.GetNumFloatFeatures = HighestIndexPlusOne(t.FloatFeatures)
        /\ result.value.GetNumCatFeatures = HighestIndexPlusOne(t.CatFeatures)
        /\ result.value.HasCategoricalFeatures
              = (result.value.GetNumCatFeatures > 0)
        /\ result.value.GetFlatFeatureVectorExpectedSize
              = result.value.GetNumFloatFeatures + result.value.GetNumCatFeatures

\* C10: when UpdateMetadata succeeds every bucket holds at most 255 splits
\* and every RepackedBins word decodes to its bin feature's bucket (16 bits),
\* xor mask (8 bits) and position in the bucket (8 bits, 1..255); when some
\* feature has 256 thresholds UpdateMetadata fails and leaves no cache.
C10_PackingCeiling ==
    result.op = "UpdateMetadata" =>
        LET t == Trees(result.who)
            buckets == Buckets(t)
        IN
        IF \E b \in 1..Len(buckets) : Len(Thresholds(buckets[b])) > 255
        THEN result.status = "throws" /\ ~Defined(t.MetaData)
        ELSE /\ result.status = "ok"
             /\ Defined(t.MetaData)
             /\ LET meta == GetRef(t.MetaData) IN
                /\ Len(meta.RepackedBins) = Len(meta.BinFeatures)
                /\ Len(meta.BinFeatures)
                      = SumSeq([b \in 1..Len(buckets) |-> Len(Thresholds(buckets[b]))])
                /\ \A i \in 1..Len(meta.RepackedBins) :
                      LET word == meta.RepackedBins[i]
                          bin == meta.BinFeatures[i]
                          b == FeatureIndexOf(word) + 1
                          k == SplitIdxOf(word)
                      IN  /\ b \in 1..Len(buckets)
                          /\ k \in 1..Len(Thresholds(buckets[b]))
                          /\ k <= 255
                          /\ XorMaskOf(word) \in 0..255
                          /\ buckets[b].Type = bin.Type
                          /\ buckets[b].Feature = bin.Feature
                          /\ Thresholds(buckets[b])[k] = bin.Threshold
                          /\ word = <<b - 1, XorMaskOf(word) * 256 + k>>

C10_Witness_FullBucket ==
    /\ result.op = "UpdateMetadata"
    /\ result.status = "ok"
    /\ Len(Trees("src").FloatFeatures) = 2
    /\ Len(Trees("src").FloatFeatures[2].Borders) = 255
    /\ Len(Trees("src").CtrFeatures[1].Borders) = 255
    /\ Len(GetRef(Trees("src").MetaData).RepackedBins) = 2 + 255 + 1 + 255

----------------------------------------------------------------------------
(* Evaluation of a built model *)

\* a model with one float feature and two borders: bin features 0 and 1
FbEval ==
    {[FbNoVectors EXCEPT
        !.ApproxDimension = dim,
        !.FloatFeatures = Just(<<FloatFeature(0, <<1, 2>>)>>)]
     : dim \in {1, 2}}

\* row sets; a row is the vector of its float feature values
RowSets == {<<<<0>>, <<3>>>>, <<<<2>>>>}

NextEval ==
    \/ \E fbObj \in FbEval : LoadFB("src", fbObj)
    \/ \E binSplits \in DepthLists :
          /\ TreeCountBelow("src", MaxBuildTrees)
          /\ LeafBlockPerTree("src")
          /\ AddBinTree("src", binSplits)
    \/ \E block \in LeafBlocksFor("src") : PushLeafValues("src", block)
    \/ UpdateMetadata("src")
    \/ \E rows \in RowSets : \E treeStart, treeEnd \in 0..MaxBuildTrees :
          CallCalc("src", rows, treeStart, treeEnd)
    \/ \E rows \in RowSets : \E incrementStep \in 1..MaxBuildTrees :
          CallCalcTreeIntervals("src", rows, incrementStep)

SpecEval == Init /\ [][NextEval]_vars

\* C9: stage k of CalcTreeIntervals is the full evaluation Calc over the
\* trees [0, min(k * step, N)): the stages are cumulative, there are
\* ceil(N / step) of them and the last one covers all N trees.
C9_StagesArePrefixSums ==
    (result.op = "CalcTreeIntervals" /\ result.status = "ok") =>
        LET m == obj[result.who]
            rows == result.args[1]
            step == result.args[2]
            n == GetTreeCount(m)
            stages == result.value
        IN  /\ Len(stages) * step >= n
            /\ (Len(stages) - 1) * step < n \/ Len(stages) = 0
            /\ \A k \in 1..Len(stages) :
                  Ok(stages[k]) = Calc(m, rows, 0, Min(k * step, n))
            /\ n > 0 => Ok(stages[Len(stages)]) = Calc(m, rows, 0, n)

C9_Witness_StepDoesNotDivide ==
    /\ result.op = "CalcTreeIntervals"
    /\ result.status = "ok"
    /\ GetTreeCount(obj["src"]) = 3
    /\ result.args[2] = 2
    /\ Len(result.value) = 2
    /\ result.value[1] # result.value[2]
    /\ Trees("src").TreeSizes = <<2, 1, 2>>

----------------------------------------------------------------------------
(* Refreshing a model and its copy: UpdateDynamicData and the provider *)

\* models to load: two trees with a CTR feature, a float feature only, and
\* a float feature with more thresholds than a bucket holds
FbRefresh ==
    {[FbNoVectors EXCEPT
        !.TreeSplits = Just(<<0>>),
        !.TreeSizes = Just(<<1, 0>>),
        !.TreeStartOffsets = Just(<<0, 1>>),
        !.LeafValues = Just(<<10, 20, 30>>),
        !.CatFeatures = Just(<<CatFeature(0)>>),
        !.FloatFeatures = Just(<<FloatFeature(0, <<1>>)>>),
        !.CtrFeatures = Just(<<CtrFeature("b1", <<1>>)>>)],
     [FbNoVectors EXCEPT
        !.FloatFeatures = Just(<<FloatFeature(0, <<1>>)>>),
        !.OneHotFeatures = Just(<<OneHotFeature(0, <<1>>)>>)],
     [FbNoVectors EXCEPT
        !.FloatFeatures =
            Just(<<FloatFeature(0, ThresholdList(MaxSplitsPerBucket + 1))>>)]}

\* a flatbuffer object that replaces the float features of a model
FbRedescribe ==
    {[FbNoVectors EXCEPT !.FloatFeatures = Just(<<FloatFeature(1, <<1>>)>>)]}

\* the source is loaded, given a provider and refreshed; a copy of a range of
\* its trees is taken, and the copy is changed and refreshed in its turn
NextRefresh ==
    \/ \E fbObj \in FbRefresh : LoadFB("src", fbObj)
    \/ \E p \in {NullPtr, "p1"} :
          /\ obj["src"] # DefaultFullModel
          /\ SetCtrProvider("src", p)
    \/ \E p \in {NullPtr, "p2"} :
          /\ obj["copy"] # DefaultFullModel
          /\ SetCtrProvider("copy", p)
    \/ \E who \in Objs :
          /\ obj[who] # DefaultFullModel
          /\ UpdateDynamicData(who)
    \/ \E begin, end \in 0..MaxTrees :
          /\ obj["src"] # DefaultFullModel
          /\ CopyTreeRange(begin, end)
    \/ \E fbObj \in FbRedescribe : Redeserialize("copy", fbObj)

SpecRefresh == Init /\ [][NextRefresh]_vars

\* C11: a call of UpdateDynamicData first rebuilds the metadata of the tree
\* store (the store after the call is the one UpdateMetadata leaves, and a
\* failure of the rebuild is the call's failure, before the provider is
\* touched); then, if and only if a provider is attached, the provider
\* receives exactly one SetupBinFeatureIndexes, with the model's current
\* FloatFeatures, OneHotFeatures and CatFeatures, and no other provider
\* receives any; with no provider attached no provider changes and the call
\* fails only if the rebuild does; after the call has returned every
\* metadata accessor succeeds.
C11_RefreshThenSetupOnce ==
    [][result'.op = "UpdateDynamicData" =>
        LET who == result'.who
            m == obj[who]
            t == m.ObliviousTrees
            p == m.CtrProvider
        IN  /\ obj'[who].ObliviousTrees = UpdateMetadataStore(t)
            /\ result'.status = UpdateMetadataOutcome(t).status
            /\ \A q \in ProviderIds :
                  IF q = p /\ result'.status = "ok"
                  THEN /\ providers'[q].SetupCalls = providers[q].SetupCalls + 1
                       /\ providers'[q].Indexes =
                              Just(<<t.FloatFeatures, t.OneHotFeatures, t.CatFeatures>>)
                       /\ providers'[q].Bases = providers[q].Bases
                  ELSE providers'[q] = providers[q]
            /\ result'.status = "ok" =>
                  /\ obj'[who].ObliviousTrees.MetaData = Just(BuildMetaData(t))
                  /\ \A op \in MetaAccessors :
                        Accessor(op, obj'[who].ObliviousTrees).status = "ok"
            /\ (p = NullPtr /\ ~BucketTooLarge(t)) => result'.status = "ok"
    ]_vars

C11_Witness_ProviderSetUp ==
    /\ result.op = "UpdateDynamicData"
    /\ result.who = "src"
    /\ result.status = "ok"
    /\ obj["src"].CtrProvider = "p1"
    /\ providers["p1"].SetupCalls = 1
    /\ providers["p1"].Indexes =
          Just(<<Trees("src").FloatFeatures, Trees("src").OneHotFeatures,
                 Trees("src").CatFeatures>>)
    /\ Len(Trees("src").CtrFeatures) = 1
    /\ Defined(Trees("src").MetaData)

\* what a reader of the source model can reach: the model itself and the
\* index wiring of the provider it refers to
SourceProviderIndexes ==
    IF obj["src"].CtrProvider = NullPtr THEN Nothing
    ELSE providers[obj["src"].CtrProvider].Indexes

\* C12: no operation on the model returned by CopyTreeRange changes any
\* state reachable from the source model: the source's tree store, metadata
\* map and provider reference stay as they are, and so does the state of the
\* provider attached to the source.
C12_CopyIsIsolated ==
    [][result'.who = "copy" =>
        /\ obj'["src"] = obj["src"]
        /\ SourceProviderIndexes' = SourceProviderIndexes
    ]_vars

====
